---- MODULE Spec2Model ----
(***************************************************************************)
(* Recommendation-fism.ipynb: the data split, the FISM model (rating       *)
(* estimation, loss, negative sampling), the hit-rate evaluation and the   *)
(* training loop, as a state machine.                                      *)
(*                                                                         *)
(* Numbers.  Biases and embeddings take small integer values; a rating is  *)
(* an exact rational [n |-> numerator, d |-> denominator] kept in lowest   *)
(* terms, with d = 0 standing for NaN (0/0, the rating of a user with no   *)
(* training item).  Floating-point rounding is not modelled.               *)
(*                                                                         *)
(* External libraries.  gconv_p / gconv_q (SAGEConv towers) and the        *)
(* encoder are library code: their eval-mode outputs for the current       *)
(* weights are the state variables P and Q; optimizer.step changes them    *)
(* (and b_u, b_i) arbitrarily within the value bounds.  Dropout is not     *)
(* modelled.  data.ratings and data.neg_valid are inputs.                  *)
(***************************************************************************)
EXTENDS Integers, Sequences, FiniteSets, TLC

VARIABLES
    pc,               \* position in the notebook
    epoch,            \* loop variable of the training loop
    ratings,          \* data.ratings: sequence of rows
    neg_valid,        \* data.neg_valid: user -> row of negative movies
    num_users,        \* shape of the matrix of all ratings
    num_movies,
    ratings_train,    \* rows with neither mask set
    user_latest_item, \* dict user_idx -> movie_idx
    user_movie_spm,   \* coo matrix of the training ratings
    users_valid, movies_valid, users_test, movies_test,
    b_u, b_i,         \* learned biases
    P, Q,             \* item embeddings of the two towers
    fwd,              \* what the last FISM.forward computed
    ev,               \* what the last RecEvaluate computed
    log               \* number of validation / test evaluations printed

vars == <<pc, epoch, ratings, neg_valid, num_users, num_movies, ratings_train,
          user_latest_item, user_movie_spm, users_valid, movies_valid,
          users_test, movies_test, b_u, b_i, P, Q, fwd, ev, log>>

----------------------------------------------------------------------------
(* Bounds of the model and constants of the program *)

NegSize == 11         \* width of data.neg_valid in the hit-rate runs
NegShort == 2         \* width of data.neg_valid in the other runs
MaxRating == 2        \* ratings handed to the loss are -MaxRating..MaxRating
MaxEval == 2          \* longest evaluation set
MaxNegSample == 2     \* largest neg_sample_size passed to forward
MaxRatings == 3       \* most rows of data.ratings
MaxTime == 2          \* timestamps are 1..MaxTime

HitsAt == 10          \* the 10 of `<= 10' in RecEvaluate
PosFraction == 10     \* forward samples int(tot/10) positives
n_epochs == 100
neg_sample_size == 20
beta == 0
gamma == 0

Users == 0..1         \* user indices of the small data sets
Movies == 0..1        \* movie indices of the small data sets
Dims == 1..2          \* hidden dimensions (n_hidden)
BiasVals == 0..1
EmbVecs == {<<0, 1>>, <<1, 0>>}

----------------------------------------------------------------------------
(* Sequences and arithmetic *)

\* F applied to the value of v, which is computed once
With(v, F(_)) == CHOOSE o \in {F(x) : x \in {v}} : TRUE

Range(s) == {s[k] : k \in DOMAIN s}

RECURSIVE SumSeq(_)
SumSeq(s) ==
    With(s, LAMBDA v : IF v = <<>> THEN 0 ELSE Head(v) + SumSeq(Tail(v)))

Max(S) == CHOOSE x \in S : \A y \in S : y <= x

Abs(x) == IF x < 0 THEN -x ELSE x

RECURSIVE Gcd(_, _)
Gcd(a, b) == IF b = 0 THEN a ELSE Gcd(b, a % b)

\* exact rationals in lowest terms; d = 0 is NaN
NaN == [n |-> 0, d |-> 0]
Rat(n, d) ==
    With(<<n, d>>, LAMBDA v :
        IF v[2] = 0 THEN NaN
        ELSE With(Gcd(Abs(v[1]), Abs(v[2])) * (IF v[2] < 0 THEN -1 ELSE 1), LAMBDA g :
                 [n |-> v[1] \div g, d |-> v[2] \div g]))
RInt(x) == [n |-> x, d |-> 1]
IsNaN(a) == a.d = 0
RAdd(a, b) ==
    With(<<a, b>>, LAMBDA v :
        IF IsNaN(v[1]) \/ IsNaN(v[2]) THEN NaN
        ELSE Rat(v[1].n * v[2].d + v[2].n * v[1].d, v[1].d * v[2].d))
RSub(a, b) ==
    With(<<a, b>>, LAMBDA v :
        IF IsNaN(v[1]) \/ IsNaN(v[2]) THEN NaN
        ELSE Rat(v[1].n * v[2].d - v[2].n * v[1].d, v[1].d * v[2].d))
RMul(a, b) ==
    With(<<a, b>>, LAMBDA v :
        IF IsNaN(v[1]) \/ IsNaN(v[2]) THEN NaN
        ELSE Rat(v[1].n * v[2].n, v[1].d * v[2].d))
RDiv(a, b) ==
    With(<<a, b>>, LAMBDA v :
        IF IsNaN(v[1]) \/ IsNaN(v[2]) THEN NaN
        ELSE Rat(v[1].n * v[2].d, v[1].d * v[2].n))
\* IEEE comparison: false when either side is NaN
RGreater(a, b) ==
    With(<<a, b>>, LAMBDA v :
        ~IsNaN(v[1]) /\ ~IsNaN(v[2]) /\ v[1].n * v[2].d > v[2].n * v[1].d)
RLeq(a, b) ==
    With(<<a, b>>, LAMBDA v :
        ~IsNaN(v[1]) /\ ~IsNaN(v[2]) /\ v[1].n * v[2].d <= v[2].n * v[1].d)

RECURSIVE RSumSeq(_)
RSumSeq(s) ==
    With(s, LAMBDA v : IF v = <<>> THEN RInt(0) ELSE RAdd(Head(v), RSumSeq(Tail(v))))

----------------------------------------------------------------------------
(* numpy / scipy / torch primitives used by the notebook *)

\* a[i] for a 0-based array held as a sequence
At(a, i) == a[i + 1]

\* np.tile(a, k): the whole array k times
Tile(a, k) == With(<<a, k>>, LAMBDA v : [t \in 1..(Len(v[1]) * v[2]) |-> v[1][((t - 1) % Len(v[1])) + 1]])

\* np.repeat(a, k): every element k times, in place
RECURSIVE Repeat(_, _)
Repeat(a, k) ==
    With(<<a, k>>, LAMBDA v :
        IF v[1] = <<>> THEN <<>>
        ELSE [t \in 1..v[2] |-> Head(v[1])] \o Repeat(Tail(v[1]), v[2]))

\* x.reshape((-1, k)): consecutive blocks of k elements become the rows
Reshape(x, k) ==
    With(<<x, k>>, LAMBDA v :
        [j \in 1..(Len(v[1]) \div v[2]) |-> SubSeq(v[1], (j - 1) * v[2] + 1, j * v[2])])

\* torch.unsqueeze(x, 1): a column
Unsqueeze(x) == With(x, LAMBDA v : [j \in 1..Len(v) |-> <<v[j]>>])

\* m.flatten() of a sequence of rows
RECURSIVE Flatten(_)
Flatten(m) ==
    With(m, LAMBDA v : IF v = <<>> THEN <<>> ELSE Head(v) \o Flatten(Tail(v)))

\* broadcasting of an elementwise binary operation between an n x k matrix
\* and an n x 1 column: the column is stretched along the second axis
Stretch(col, k) ==
    With(<<col, k>>, LAMBDA v : [j \in 1..Len(v[1]) |-> [t \in 1..v[2] |-> v[1][j][1]]])

\* spsp.coo_matrix((ones, (row, col))) with the shape inferred from the
\* largest indices; scipy refuses empty index arrays
CooMatrix(row, col) ==
    [shape |-> <<Max(Range(row)) + 1, Max(Range(col)) + 1>>,
     row |-> row, col |-> col, data |-> [k \in DOMAIN row |-> 1]]

\* np.sum in place of np.mean
SumNotMean(h) == RInt(Cardinality({j \in DOMAIN h : h[j]}))

\* np.mean of a boolean array, as a rational
Mean(h) == Rat(Cardinality({j \in DOMAIN h : h[j]}), Len(h))

----------------------------------------------------------------------------
(* class FISM *)

RECURSIVE SumSet(_, _)
SumSet(S, f) ==
    With(<<S, f>>, LAMBDA v :
        IF v[1] = {} THEN 0
        ELSE With(CHOOSE y \in v[1] : TRUE, LAMBDA x :
                 v[2][x] + SumSet(v[1] \ {x}, v[2])))

\* the stored entries of row u of a coo matrix
RowEntries(spm, u) == {k \in DOMAIN spm.row : spm.row[k] = u}

\* no normalisation by the degree
UserDegOne(spm) == [u \in 0..(spm.shape[1] - 1) |-> 1]

\* self.user_deg = user_movie_spm.dot(np.ones(num_movies))
UserDeg(spm) ==
    [u \in 0..(spm.shape[1] - 1) |-> SumSet(RowEntries(spm, u), spm.data)]

\* torch.sparse.mm(self.user_item_spm, P): row u is the sum of the rows P[j]
\* over the stored entries (u, j), entry by entry
SpMM(spm, Pm) ==
    [u \in 0..(spm.shape[1] - 1) |->
        [d \in Dims |->
            SumSet(RowEntries(spm, u),
                   [k \in DOMAIN spm.row |-> spm.data[k] * Pm[spm.col[k]][d]])]]

\* FISM._est_rating
_est_rating(spm, bu, bi, Pm, Qm, user_idx, item_idx) ==
    With(<<SpMM(spm, Pm), UserDeg(spm), user_idx, item_idx>>, LAMBDA m :
        LET user_emb_all == m[1]
            user_deg == m[2]
            uidx == m[3]
            iidx == m[4]
            user_emb(k) == [d \in Dims |->
                               RDiv(RInt(user_emb_all[uidx[k]][d]),
                                    RInt(user_deg[uidx[k]]))]
            tmp(k) == [d \in Dims |-> RMul(user_emb(k)[d], RInt(Qm[iidx[k]][d]))]
        IN  [k \in DOMAIN uidx |->
                RAdd(RAdd(RInt(bu[uidx[k]]), RInt(bi[iidx[k]])),
                     RSumSeq(tmp(k)))])

\* FISM.est_rating, for a non-empty user_idx: the pair (r, neg_r)
est_rating(spm, bu, bi, Pm, Qm, user_idx, item_idx, neg_item_idx) ==
    With(Len(neg_item_idx) \div Len(user_idx), LAMBDA nss :
        LET r == _est_rating(spm, bu, bi, Pm, Qm, user_idx, item_idx)
            neg_r == _est_rating(spm, bu, bi, Pm, Qm, Repeat(user_idx, nss), neg_item_idx)
        IN  <<Unsqueeze(r), Reshape(neg_r, nss)>>)

\* sum of the squares of the entries of an embedding matrix / a bias vector
SqSumEmb(Pm) ==
    SumSet(DOMAIN Pm, [j \in DOMAIN Pm |-> SumSeq([d \in Dims |-> Pm[j][d] * Pm[j][d]])])
SqSumBias(b) == SumSet(DOMAIN b, [j \in DOMAIN b |-> b[j] * b[j]])

\* FISM.loss: r_ui is n x 1, neg_r_ui is n x k
loss(bu, bi, Pm, Qm, r_ui, neg_r_ui) ==
    With(IF neg_r_ui = <<>> THEN 0 ELSE Len(neg_r_ui[1]), LAMBDA k :
    With(Stretch(r_ui, k), LAMBDA rr :
    With([j \in DOMAIN neg_r_ui |->
             [t \in 1..k |-> RSub(RInt(1), RSub(rr[j][t], neg_r_ui[j][t]))]], LAMBDA diff :
        RAdd(RAdd(RSumSeq([j \in DOMAIN diff |->
                              RSumSeq([t \in 1..k |->
                                          RDiv(RMul(diff[j][t], diff[j][t]), RInt(2))])]),
                  RMul(Rat(beta, 2), RInt(SqSumEmb(Pm) + SqSumEmb(Qm)))),
             RMul(Rat(gamma, 2), RInt(SqSumBias(bu) + SqSumBias(bi)))))))

\* the part of FISM.forward after the random draws
forward(spm, bu, bi, Pm, Qm, nss, pos_idx, neg_item_idx) ==
    With(<<[k \in DOMAIN pos_idx |-> At(spm.row, pos_idx[k])],
           [k \in DOMAIN pos_idx |-> At(spm.col, pos_idx[k])]>>, LAMBDA idx :
    With(<<Unsqueeze(_est_rating(spm, bu, bi, Pm, Qm, idx[1], idx[2])),
           Reshape(_est_rating(spm, bu, bi, Pm, Qm, Repeat(idx[1], nss), neg_item_idx),
                   nss)>>, LAMBDA rs :
        [neg_sample_size |-> nss, user_idx |-> idx[1], item_idx |-> idx[2],
         neg_item_idx |-> neg_item_idx, r_ui |-> rs[1], neg_r_ui |-> rs[2],
         loss |-> loss(bu, bi, Pm, Qm, rs[1], rs[2])]))

----------------------------------------------------------------------------
(* RecEvaluate *)

\* (torch.sum(neg_r > r, 1) <= 10)
Hits10(r, neg_r) ==
    With(IF neg_r = <<>> THEN 0 ELSE Len(neg_r[1]), LAMBDA k :
    With(Stretch(r, k), LAMBDA rr :
        [j \in DOMAIN neg_r |->
            Cardinality({t \in 1..k : RGreater(neg_r[j][t], rr[j][t])}) <= HitsAt]))

\* the body of RecEvaluate for a non-empty evaluation set
RecEvaluate(spm, bu, bi, Pm, Qm, negs, users_eval, movies_eval) ==
    With(Flatten([j \in DOMAIN users_eval |-> negs[users_eval[j]]]), LAMBDA neg_movies_eval :
    With(est_rating(spm, bu, bi, Pm, Qm, users_eval, movies_eval, neg_movies_eval), LAMBDA rs :
    With(Hits10(rs[1], rs[2]), LAMBDA hits10 :
        [users_eval |-> users_eval, movies_eval |-> movies_eval,
         neg_movies_eval |-> neg_movies_eval, r |-> rs[1], neg_r |-> rs[2],
         hits10 |-> hits10, acc |-> Mean(hits10)])))

----------------------------------------------------------------------------
(* The data cells: statistics, split, training / validation / test sets *)

Row(u, m, ts, vm, tm) ==
    [user_idx |-> u, movie_idx |-> m, timestamp |-> ts, valid_mask |-> vm, test_mask |-> tm]

Column(t, c) == [k \in DOMAIN t |-> t[k][c]]

\* ratings[~(ratings['valid_mask'] | ratings['test_mask'])]
\* the test mask forgotten
IsTrainValidOnly(row) == ~row.valid_mask

IsTrain(row) == ~(row.valid_mask \/ row.test_mask)
TrainRows(t) == SelectSeq(t, IsTrain)

IsValid(row) == row.valid_mask
IsTest(row) == row.test_mask

\* the rows whose timestamp is the largest of their user's rows, then
\* dict(zip(user_idx, movie_idx)): a later row replaces an earlier one
LatestItem(train) ==
    LET latest == {k \in DOMAIN train :
                      \A l \in DOMAIN train :
                          train[l].user_idx = train[k].user_idx
                              => train[l].timestamp <= train[k].timestamp}
        keys == {train[k].user_idx : k \in latest}
    IN  [u \in keys |->
            train[Max({k \in latest : train[k].user_idx = u})].movie_idx]

NoModel == <<>>
NoRun == [none |-> TRUE]
NoLog == [forward |-> 0, zero_grad |-> 0, backward |-> 0, step |-> 0,
          valid |-> 0, test |-> 0]

\* cell "Calculate some statistics of the dataset"
Stats ==
    /\ pc = "stats"
    /\ IF ratings = <<>>
       THEN /\ pc' = "ValueError"
            /\ UNCHANGED <<num_users, num_movies, user_movie_spm>>
       ELSE LET spm == CooMatrix(Column(ratings, "user_idx"), Column(ratings, "movie_idx"))
            IN  /\ user_movie_spm' = spm
                /\ num_users' = spm.shape[1]
                /\ num_movies' = spm.shape[2]
                /\ pc' = "split"
    /\ UNCHANGED <<epoch, ratings, neg_valid, ratings_train, user_latest_item,
                   users_valid, movies_valid, users_test, movies_test,
                   b_u, b_i, P, Q, fwd, ev, log>>

\* cell "We split the dataset into a training set and a testing set"
Split ==
    /\ pc = "split"
    /\ ratings_train' = TrainRows(ratings)
    /\ user_latest_item' = LatestItem(TrainRows(ratings))
    /\ pc' = "datasets"
    /\ UNCHANGED <<epoch, ratings, neg_valid, num_users, num_movies, user_movie_spm,
                   users_valid, movies_valid, users_test, movies_test,
                   b_u, b_i, P, Q, fwd, ev, log>>

\* cell "Construct the training, validation and testing dataset"
Datasets ==
    /\ pc = "datasets"
    /\ IF ratings_train = <<>>
       THEN /\ pc' = "ValueError"
            /\ UNCHANGED <<user_movie_spm, users_valid, movies_valid, users_test, movies_test>>
       ELSE LET spm == CooMatrix(Column(ratings_train, "user_idx"),
                                 Column(ratings_train, "movie_idx"))
            IN  /\ user_movie_spm' = spm
                /\ IF num_users = spm.shape[1] /\ num_movies = spm.shape[2]
                   THEN /\ users_valid' = Column(SelectSeq(ratings, IsValid), "user_idx")
                        /\ movies_valid' = Column(SelectSeq(ratings, IsValid), "movie_idx")
                        /\ users_test' = Column(SelectSeq(ratings, IsTest), "user_idx")
                        /\ movies_test' = Column(SelectSeq(ratings, IsTest), "movie_idx")
                        /\ pc' = "model"
                   ELSE /\ pc' = "AssertionError"
                        /\ UNCHANGED <<users_valid, movies_valid, users_test, movies_test>>
    /\ UNCHANGED <<epoch, ratings, neg_valid, num_users, num_movies, ratings_train,
                   user_latest_item, b_u, b_i, P, Q, fwd, ev, log>>

----------------------------------------------------------------------------
(* The model and the training cell *)

EmbSpace(nm) == [0..(nm - 1) -> EmbVecs]
BiasSpace(n) == [0..(n - 1) -> BiasVals]
Zeros(n) == [j \in 0..(n - 1) |-> 0]

\* model = FISM(user_movie_spm, gconv_p, gconv_q, in_feats, n_hidden): the
\* biases start at zero, the towers at some random initialisation
CreateModel ==
    /\ pc = "model"
    /\ b_u' = Zeros(num_users)
    /\ b_i' = Zeros(num_movies)
    /\ P' \in EmbSpace(user_movie_spm.shape[2])
    /\ Q' \in EmbSpace(user_movie_spm.shape[2])
    /\ epoch' = 0
    /\ pc' = IF 0 < n_epochs THEN "forward" ELSE "test"
    /\ UNCHANGED <<ratings, neg_valid, num_users, num_movies, ratings_train,
                   user_latest_item, user_movie_spm, users_valid, movies_valid,
                   users_test, movies_test, fwd, ev, log>>

\* loss = model(g, features, nss): FISM.forward with its two random draws
ForwardCall(nss) ==
    LET tot == Len(user_movie_spm.row)
        npos == tot \div PosFraction
    IN  \E pos_idx \in [1..npos -> 0..(tot - 1)] :
        \E neg_item_idx \in [1..(npos * nss) -> 0..(user_movie_spm.shape[2] - 1)] :
            fwd' = forward(user_movie_spm, b_u, b_i, P, Q, nss, pos_idx, neg_item_idx)

\* RecEvaluate(model, g, features, users_eval, movies_eval, neg_sample_size);
\* len(user_idx) = 0 makes est_rating divide by zero
EvalCall(users_eval, movies_eval, next) ==
    IF users_eval = <<>>
    THEN /\ pc' = "ZeroDivisionError"
         /\ UNCHANGED ev
    ELSE /\ ev' = RecEvaluate(user_movie_spm, b_u, b_i, P, Q, neg_valid,
                              users_eval, movies_eval)
         /\ pc' = next

Bump(l, f) == [l EXCEPT ![f] = @ + 1]

Forward ==
    /\ pc = "forward"
    /\ ForwardCall(neg_sample_size)
    /\ log' = Bump(log, "forward")
    /\ pc' = "zero_grad"
    /\ UNCHANGED <<epoch, ratings, neg_valid, num_users, num_movies, ratings_train,
                   user_latest_item, user_movie_spm, users_valid, movies_valid,
                   users_test, movies_test, b_u, b_i, P, Q, ev>>

ZeroGrad ==
    /\ pc = "zero_grad"
    /\ log' = Bump(log, "zero_grad")
    /\ pc' = "backward"
    /\ UNCHANGED <<epoch, ratings, neg_valid, num_users, num_movies, ratings_train,
                   user_latest_item, user_movie_spm, users_valid, movies_valid,
                   users_test, movies_test, b_u, b_i, P, Q, fwd, ev>>

Backward ==
    /\ pc = "backward"
    /\ log' = Bump(log, "backward")
    /\ pc' = "step"
    /\ UNCHANGED <<epoch, ratings, neg_valid, num_users, num_movies, ratings_train,
                   user_latest_item, user_movie_spm, users_valid, movies_valid,
                   users_test, movies_test, b_u, b_i, P, Q, fwd, ev>>

\* optimizer.step(): Adam moves every learned parameter; the new values are
\* arbitrary within the value bounds
OptimizerStep ==
    /\ pc = "step"
    /\ b_u' \in BiasSpace(num_users)
    /\ b_i' \in BiasSpace(num_movies)
    /\ P' \in EmbSpace(num_movies)
    /\ Q' \in EmbSpace(num_movies)
    /\ log' = Bump(log, "step")
    /\ pc' = "validate"
    /\ UNCHANGED <<epoch, ratings, neg_valid, num_users, num_movies, ratings_train,
                   user_latest_item, user_movie_spm, users_valid, movies_valid,
                   users_test, movies_test, fwd, ev>>

\* the validation call runs an optimizer step of its own
ValidateTrains ==
    /\ pc = "validate"
    /\ EvalCall(users_valid, movies_valid,
                IF epoch + 1 < n_epochs THEN "forward" ELSE "test")
    /\ log' = IF users_valid = <<>> THEN log ELSE Bump(log, "valid")
    /\ epoch' = IF users_valid # <<>> /\ epoch + 1 < n_epochs THEN epoch + 1 ELSE epoch
    /\ b_u' \in BiasSpace(num_users)
    /\ b_i' \in BiasSpace(num_movies)
    /\ P' \in EmbSpace(num_movies)
    /\ Q' \in EmbSpace(num_movies)
    /\ UNCHANGED <<ratings, neg_valid, num_users, num_movies, ratings_train,
                   user_latest_item, user_movie_spm, users_valid, movies_valid,
                   users_test, movies_test, fwd>>

\* the loop leaves after its first iteration
ValidateOnce ==
    /\ pc = "validate"
    /\ EvalCall(users_valid, movies_valid,
                IF epoch + 1 < 1 THEN "forward" ELSE "test")
    /\ log' = IF users_valid = <<>> THEN log ELSE Bump(log, "valid")
    /\ epoch' = IF users_valid # <<>> /\ epoch + 1 < 1 THEN epoch + 1 ELSE epoch
    /\ UNCHANGED <<ratings, neg_valid, num_users, num_movies, ratings_train,
                   user_latest_item, user_movie_spm, users_valid, movies_valid,
                   users_test, movies_test, b_u, b_i, P, Q, fwd>>

\* acc = RecEvaluate(..., users_valid, movies_valid, ...), then the next
\* iteration of `for epoch in range(n_epochs)'
Validate ==
    /\ pc = "validate"
    /\ EvalCall(users_valid, movies_valid,
                IF epoch + 1 < n_epochs THEN "forward" ELSE "test")
    /\ log' = IF users_valid = <<>> THEN log ELSE Bump(log, "valid")
    /\ epoch' = IF users_valid # <<>> /\ epoch + 1 < n_epochs THEN epoch + 1 ELSE epoch
    /\ UNCHANGED <<ratings, neg_valid, num_users, num_movies, ratings_train,
                   user_latest_item, user_movie_spm, users_valid, movies_valid,
                   users_test, movies_test, b_u, b_i, P, Q, fwd>>

\* RecEvaluate(..., users_test, movies_test, ...) after the loop
Test ==
    /\ pc = "test"
    /\ EvalCall(users_test, movies_test, "done")
    /\ log' = IF users_test = <<>> THEN log ELSE Bump(log, "test")
    /\ UNCHANGED <<epoch, ratings, neg_valid, num_users, num_movies, ratings_train,
                   user_latest_item, user_movie_spm, users_valid, movies_valid,
                   users_test, movies_test, b_u, b_i, P, Q, fwd>>

----------------------------------------------------------------------------
(* Data sets the runs start from *)

Pairs == Users \X Movies
PairKey(p) == p[1] * Cardinality(Movies) + p[2]

\* the pairs of S in row-major order
RECURSIVE SortPairs(_)
SortPairs(S) ==
    IF S = {} THEN <<>>
    ELSE LET p == CHOOSE q \in S : \A o \in S : PairKey(q) <= PairKey(o)
         IN  <<p>> \o SortPairs(S \ {p})

Attrs == [timestamp : 1..MaxTime, valid_mask : BOOLEAN, test_mask : BOOLEAN]

\* the table with one row per pair of S and the attributes a[pair]
TableOf(S, a) ==
    LET sp == SortPairs(S)
    IN  [k \in DOMAIN sp |->
            Row(sp[k][1], sp[k][2], a[sp[k]].timestamp,
                a[sp[k]].valid_mask, a[sp[k]].test_mask)]

\* data.ratings: at most one row per (user, movie), at most MaxRatings rows
RatingTables ==
    UNION {{TableOf(S, a) : a \in [S -> Attrs]} :
              S \in {T \in SUBSET Pairs : Cardinality(T) <= MaxRatings}}

\* a table passes the data cells when neither coo_matrix call raises and
\* both assertions hold
PassesDataCells(t) ==
    /\ t # <<>>
    /\ TrainRows(t) # <<>>
    /\ CooMatrix(Column(TrainRows(t), "user_idx"), Column(TrainRows(t), "movie_idx")).shape
         = CooMatrix(Column(t, "user_idx"), Column(t, "movie_idx")).shape

\* training-only tables; the timestamp of (u, m) is 1 + (u + m) % MaxTime
TrainOnlyTables ==
    {t \in {TableOf(S, [p \in S |-> [timestamp |-> 1 + ((p[1] + p[2]) % MaxTime),
                                     valid_mask |-> FALSE, test_mask |-> FALSE]]) :
               S \in {T \in SUBSET Pairs : Cardinality(T) <= MaxRatings}} :
        /\ PassesDataCells(t)
        /\ CooMatrix(Column(t, "user_idx"), Column(t, "movie_idx")).shape
             = <<Cardinality(Users), Cardinality(Movies)>>}

\* rows of data.neg_valid: a copies of movie 1, then movie 0
NegRowAB(a) == [t \in 1..NegSize |-> IF t <= a THEN 1 ELSE 0]
\* movies 0 and 1 in turn, starting with u % 2
NegRowAlt(u) == [t \in 1..NegShort |-> (t + u + 1) % 2]

\* all evaluation sets of at most MaxEval pairs, as the two index arrays
EvalSets == UNION {[1..n -> Pairs] : n \in 0..MaxEval}

\* the state the data cells leave behind for the table t
AfterDataCells(t) ==
    LET spm == CooMatrix(Column(TrainRows(t), "user_idx"), Column(TrainRows(t), "movie_idx"))
    IN  /\ ratings = t
        /\ ratings_train = TrainRows(t)
        /\ user_latest_item = LatestItem(TrainRows(t))
        /\ user_movie_spm = spm
        /\ num_users = spm.shape[1]
        /\ num_movies = spm.shape[2]
        /\ users_valid = Column(SelectSeq(t, IsValid), "user_idx")
        /\ movies_valid = Column(SelectSeq(t, IsValid), "movie_idx")
        /\ users_test = Column(SelectSeq(t, IsTest), "user_idx")
        /\ movies_test = Column(SelectSeq(t, IsTest), "movie_idx")
        /\ epoch = 0 /\ ev = NoRun /\ log = NoLog

\* nothing computed yet
BeforeDataCells ==
    /\ num_users = 0 /\ num_movies = 0
    /\ ratings_train = <<>> /\ user_latest_item = <<>>
    /\ user_movie_spm = NoModel
    /\ users_valid = <<>> /\ movies_valid = <<>>
    /\ users_test = <<>> /\ movies_test = <<>>
    /\ b_u = NoModel /\ b_i = NoModel /\ P = NoModel /\ Q = NoModel
    /\ epoch = 0 /\ fwd = NoRun /\ ev = NoRun /\ log = NoLog

----------------------------------------------------------------------------
(* The data cells on every table *)

SplitInit ==
    /\ pc = "stats"
    /\ ratings \in RatingTables
    /\ neg_valid = <<>>
    /\ BeforeDataCells

SplitNext == Stats \/ Split \/ Datasets

SplitSpec == SplitInit /\ [][SplitNext]_vars

----------------------------------------------------------------------------
(* RecEvaluate on every evaluation set, for every model over the           *)
(* training-only tables                                                    *)

EvalAny ==
    /\ pc = "call"
    /\ \E e \in EvalSets :
          EvalCall([k \in DOMAIN e |-> e[k][1]], [k \in DOMAIN e |-> e[k][2]], "returned")
    /\ UNCHANGED <<epoch, ratings, neg_valid, num_users, num_movies, ratings_train,
                   user_latest_item, user_movie_spm, users_valid, movies_valid,
                   users_test, movies_test, b_u, b_i, P, Q, fwd, log>>

EstInit ==
    /\ pc = "call"
    /\ \E t \in TrainOnlyTables : AfterDataCells(t)
    /\ fwd = NoRun
    /\ neg_valid = [u \in Users |-> NegRowAlt(u)]
    /\ b_u \in BiasSpace(Cardinality(Users))
    /\ b_i \in BiasSpace(Cardinality(Movies))
    /\ P \in EmbSpace(Cardinality(Movies))
    /\ Q \in EmbSpace(Cardinality(Movies))

EstSpec == EstInit /\ [][EvalAny]_vars

----------------------------------------------------------------------------
(* RecEvaluate with data.neg_valid NegSize wide: every count of negatives  *)
(* ranked above the held-out item occurs                                   *)

HitTables ==
    {t \in TrainOnlyTables :
        Range(t) \in {{Row(1, 1, 1, FALSE, FALSE)},
                      {Row(0, 1, 2, FALSE, FALSE), Row(1, 0, 2, FALSE, FALSE)}}}

HitInit ==
    /\ pc = "call"
    /\ \E t \in HitTables : AfterDataCells(t)
    /\ fwd = NoRun
    /\ \E a \in 0..NegSize : neg_valid = [u \in Users |-> NegRowAB(a)]
    /\ b_u = Zeros(Cardinality(Users))
    /\ b_i \in BiasSpace(Cardinality(Movies))
    /\ P = [m \in Movies |-> <<1, 1>>]
    /\ Q \in EmbSpace(Cardinality(Movies))

HitSpec == HitInit /\ [][EvalAny]_vars

----------------------------------------------------------------------------
(* FISM.forward on training matrices large enough for two positives *)

FwdUsers == 0..10

\* every pair of FwdUsers x Movies but the pair (0, skip), all training rows
FwdTable(skip) ==
    LET S == (FwdUsers \X Movies) \ {<<0, skip>>}
    IN  TableOf(S, [p \in S |-> [timestamp |-> 1, valid_mask |-> FALSE,
                                 test_mask |-> FALSE]])

ForwardAny ==
    /\ pc = "call"
    /\ \E nss \in 1..MaxNegSample : ForwardCall(nss)
    /\ pc' = "returned"
    /\ UNCHANGED <<epoch, ratings, neg_valid, num_users, num_movies, ratings_train,
                   user_latest_item, user_movie_spm, users_valid, movies_valid,
                   users_test, movies_test, b_u, b_i, P, Q, ev, log>>

FwdInit ==
    /\ pc = "call"
    /\ \E skip \in Movies : AfterDataCells(FwdTable(skip))
    /\ fwd = NoRun
    /\ neg_valid = [u \in FwdUsers |-> NegRowAlt(u)]
    /\ b_u = [u \in FwdUsers |-> u % 2]
    /\ b_i = [m \in Movies |-> m]
    /\ P = [m \in Movies |-> IF m = 0 THEN <<1, 0>> ELSE <<0, 1>>]
    /\ Q = [m \in Movies |-> IF m = 0 THEN <<1, 0>> ELSE <<1, 1>>]

FwdSpec == FwdInit /\ [][ForwardAny \/ EvalAny]_vars

----------------------------------------------------------------------------
(* FISM.loss as a function of the estimated ratings *)

Ratings == {RInt(x) : x \in (-MaxRating)..MaxRating}

LossRun(r_ui, neg_r_ui) ==
    [r_ui |-> r_ui, neg_r_ui |-> neg_r_ui,
     loss |-> loss(b_u, b_i, P, Q, r_ui, neg_r_ui)]

\* the rating of positive j goes up by one, everything else stays
RaisePositive ==
    /\ pc = "loss"
    /\ \E j \in DOMAIN fwd.r_ui :
          /\ RAdd(fwd.r_ui[j][1], RInt(1)) \in Ratings
          /\ fwd' = LossRun([fwd.r_ui EXCEPT ![j] = <<RAdd(@[1], RInt(1))>>], fwd.neg_r_ui)
    /\ UNCHANGED <<pc, epoch, ratings, neg_valid, num_users, num_movies, ratings_train,
                   user_latest_item, user_movie_spm, users_valid, movies_valid,
                   users_test, movies_test, b_u, b_i, P, Q, ev, log>>

\* the rating of negative t of positive j goes down by one
LowerNegative ==
    /\ pc = "loss"
    /\ \E j \in DOMAIN fwd.neg_r_ui : \E t \in DOMAIN fwd.neg_r_ui[j] :
          /\ RSub(fwd.neg_r_ui[j][t], RInt(1)) \in Ratings
          /\ fwd' = LossRun(fwd.r_ui, [fwd.neg_r_ui EXCEPT ![j][t] = RSub(@, RInt(1))])
    /\ UNCHANGED <<pc, epoch, ratings, neg_valid, num_users, num_movies, ratings_train,
                   user_latest_item, user_movie_spm, users_valid, movies_valid,
                   users_test, movies_test, b_u, b_i, P, Q, ev, log>>

LossInit ==
    /\ pc = "loss"
    /\ \E t \in HitTables : AfterDataCells(t)
    /\ neg_valid = [u \in Users |-> NegRowAlt(u)]
    /\ b_u \in BiasSpace(Cardinality(Users))
    /\ b_i = Zeros(Cardinality(Movies))
    /\ P = [m \in Movies |-> <<1, 1>>]
    /\ Q = [m \in Movies |-> <<1, 0>>]

LossStart ==
    /\ LossInit
    /\ \E k \in 1..MaxNegSample : \E r \in [1..1 -> Ratings] : \E n \in [1..k -> Ratings] :
          fwd = LossRun(Unsqueeze(r), <<n>>)

LossSpec == LossStart /\ [][RaisePositive \/ LowerNegative]_vars

----------------------------------------------------------------------------
(* The notebook from its first data cell to the test evaluation *)

LoopTable == <<Row(0, 0, 1, TRUE, TRUE), Row(0, 1, 2, FALSE, FALSE)>>

Init ==
    /\ pc = "stats"
    /\ ratings = LoopTable
    /\ neg_valid = [u \in {0} |-> NegRowAlt(u)]
    /\ BeforeDataCells

Next ==
    \/ Stats \/ Split \/ Datasets \/ CreateModel
    \/ Forward \/ ZeroGrad \/ Backward \/ OptimizerStep \/ Validate
    \/ Test

Spec == Init /\ [][Next]_vars

\* the notebook runs its cells one after the other until one raises or the
\* last one returns
FairSpec == Spec /\ WF_vars(Next)

----------------------------------------------------------------------------
(* Hit rate *)

\* the negatives of evaluation pair j that are rated strictly above the
\* held-out item
Above(j) ==
    {t \in DOMAIN ev.neg_r[j] : RGreater(ev.neg_r[j][t], ev.r[j][1])}

\* C1: whenever RecEvaluate returns, the hit-rate it returns is between 0
\* and 1 inclusive
C1_HitRateInUnitInterval ==
    ev # NoRun => RLeq(RInt(0), ev.acc) /\ RLeq(ev.acc, RInt(1))

\* RecEvaluate returned for two pairs, one a hit and one a miss
C1_Witness ==
    /\ pc = "returned" /\ ev # NoRun
    /\ Len(ev.users_eval) = 2
    /\ ev.hits10[1] /\ ~ev.hits10[2]
    /\ ev.acc = Rat(1, 2)

\* C2: a pair is a hit exactly when the held-out item is within the top 10
\* of the list of itself and its negatives ordered by estimated rating (its
\* rank is one more than the number of negatives rated above it), and the
\* returned value is the fraction of pairs that are hits
C2_HitIffTop10 ==
    ev # NoRun =>
        /\ \A j \in DOMAIN ev.hits10 :
              ev.hits10[j] <=> (Cardinality(Above(j)) + 1 <= 10)
        /\ ev.acc = Rat(Cardinality({j \in DOMAIN ev.hits10 :
                                        Cardinality(Above(j)) + 1 <= 10}),
                        Len(ev.users_eval))

----------------------------------------------------------------------------
(* Negative sampling in FISM.forward *)

\* the (user, movie) pairs with a stored entry in the training matrix
Observed ==
    {<<user_movie_spm.row[k], user_movie_spm.col[k]>> : k \in DOMAIN user_movie_spm.row}

\* C3: every negative item drawn by forward for a sampled positive pair is an
\* item its user has no interaction with in the training matrix
C3_NegativesUnobserved ==
    fwd # NoRun =>
        \A j \in DOMAIN fwd.user_idx : \A t \in 1..fwd.neg_sample_size :
            <<fwd.user_idx[j], fwd.neg_item_idx[(j - 1) * fwd.neg_sample_size + t]>>
                \notin Observed

----------------------------------------------------------------------------
(* What RecEvaluate's ratings depend on *)

\* the training matrix with every user's row cut down to the entry of
\* user_latest_item, the shape kept
LatestOnly(spm) ==
    LET keys == SortPairs({<<u, user_latest_item[u]>> : u \in DOMAIN user_latest_item})
    IN  [shape |-> spm.shape,
         row |-> [k \in DOMAIN keys |-> keys[k][1]],
         col |-> [k \in DOMAIN keys |-> keys[k][2]],
         data |-> [k \in DOMAIN keys |-> 1]]

\* C4: the ratings RecEvaluate estimates depend on a user's training history
\* only through user_latest_item: they are the ratings the same model gives
\* when each user's history is just the latest item
C4_OnlyLatestItem ==
    ev # NoRun =>
        <<ev.r, ev.neg_r>> =
            est_rating(LatestOnly(user_movie_spm), b_u, b_i, P, Q,
                       ev.users_eval, ev.movies_eval, ev.neg_movies_eval)

----------------------------------------------------------------------------
(* The split *)

PairsOf(us, ms) == {<<us[k], ms[k]>> : k \in DOMAIN us}
RowPair(row) == <<row.user_idx, row.movie_idx>>
TrainPairs == {RowPair(ratings_train[k]) : k \in DOMAIN ratings_train}

\* C5: once the three sets are built, the training set is exactly the rows
\* with neither mask set, no row is both in the training set and in the
\* validation or test set, and every row is in at least one of the three
C5_SplitPartitions ==
    /\ pc \notin {"stats", "split"} =>
          Range(ratings_train)
             = {row \in Range(ratings) : ~row.valid_mask /\ ~row.test_mask}
    /\ pc = "model" =>
        /\ TrainPairs \cap PairsOf(users_valid, movies_valid) = {}
        /\ TrainPairs \cap PairsOf(users_test, movies_test) = {}
        /\ \A row \in Range(ratings) :
              RowPair(row) \in TrainPairs \cup PairsOf(users_valid, movies_valid)
                                \cup PairsOf(users_test, movies_test)

\* the three sets are built and none of them is empty
C5_Witness ==
    /\ pc = "model"
    /\ ratings_train # <<>> /\ users_valid # <<>> /\ users_test # <<>>
    /\ PairsOf(users_valid, movies_valid) # PairsOf(users_test, movies_test)

\* C8: the two shape assertions never fail: the matrix of the training
\* ratings has the shape of the matrix of all ratings
C8_AssertsNeverFail ==
    /\ pc # "AssertionError"
    /\ pc = "model" => user_movie_spm.shape = <<num_users, num_movies>>

----------------------------------------------------------------------------
(* The training loop *)

\* the steps of the loop happen one at a time and in the order of the code
InOrder ==
    /\ log.step <= log.backward
    /\ log.backward <= log.zero_grad
    /\ log.zero_grad <= log.forward
    /\ log.forward <= log.valid + 1
    /\ log.valid <= log.step
    /\ log.forward <= n_epochs
    /\ log.test <= 1
    /\ log.test = 1 => log.valid = n_epochs
    /\ pc = "done" => log.test = 1 /\ log.forward = n_epochs /\ log.step = n_epochs

\* C6: the run performs exactly n_epochs epochs, within each the training
\* step (forward, zero_grad, backward, optimizer.step, in that order)
\* completes before exactly one validation evaluation, the one test
\* evaluation comes after the last validation, and the run terminates
C6_SequentialLoop == []InOrder /\ <>(pc = "done")

\* the run has ended after n_epochs validations and the test evaluation
C6_Witness ==
    /\ pc = "done"
    /\ log.valid = n_epochs /\ log.test = 1
    /\ epoch = n_epochs - 1

----------------------------------------------------------------------------
(* The loss *)

\* C7: with beta = gamma = 0, raising the estimated rating of a positive
\* pair or lowering the estimated rating of one of its negatives, all other
\* ratings fixed, never increases the loss
C7_LossNeverIncreases == [][RLeq(fwd'.loss, fwd.loss)]_vars

----------------------------------------------------------------------------
(* The rating formula *)

\* the movies user u has a training row for
TrainItems(u) ==
    {ratings_train[k].movie_idx :
        k \in {l \in DOMAIN ratings_train : ratings_train[l].user_idx = u}}

Dot(x, y) == SumSeq([d \in Dims |-> x[d] * y[d]])

\* b_u[u] + b_i[i] + (sum over the training items j of u of P[j] . Q[i]) / deg
Formula(u, i) ==
    With(Cardinality(TrainItems(u)), LAMBDA deg :
        Rat((b_u[u] + b_i[i]) * deg
              + SumSet(TrainItems(u), [j \in DOMAIN P |-> Dot(P[j], Q[i])]),
            deg))

\* C9: for each position k of the index arrays, _est_rating gives
\* b_u[u] + b_i[i] + (sum over all training items j of u, i itself included
\* when it is one, of P[j] . Q[i]) / (training degree of u)
C9_RatingFormula ==
    ev # NoRun =>
        \A k \in DOMAIN ev.users_eval :
            TrainItems(ev.users_eval[k]) # {} =>
                ev.r[k][1] = Formula(ev.users_eval[k], ev.movies_eval[k])

\* a rating was estimated for a user with two training items and a candidate
\* that is one of them, and the candidate's own term P[i] . Q[i] is not zero
C9_Witness ==
    /\ pc = "returned" /\ ev # NoRun
    /\ \E k \in DOMAIN ev.users_eval :
          /\ Cardinality(TrainItems(ev.users_eval[k])) = 2
          /\ ev.movies_eval[k] \in TrainItems(ev.users_eval[k])
          /\ Dot(P[ev.movies_eval[k]], Q[ev.movies_eval[k]]) # 0
          /\ b_u[ev.users_eval[k]] # 0 /\ b_i[ev.movies_eval[k]] # 0

----------------------------------------------------------------------------
(* Positives and their negatives *)

\* the rating the model gives user u for item i
RatingOf(u, i) == _est_rating(user_movie_spm, b_u, b_i, P, Q, <<u>>, <<i>>)[1]

\* row j of neg_rows holds the ratings of user_idx[j] for the k items
\* neg_idx[j*k .. j*k + k - 1] (0-based), and nothing else
RowsPaired(user_idx, neg_idx, neg_rows) ==
    With(Len(neg_idx) \div Len(user_idx), LAMBDA k :
        /\ Len(neg_rows) = Len(user_idx)
        /\ \A j \in DOMAIN user_idx :
              /\ Len(neg_rows[j]) = k
              /\ \A t \in 1..k :
                    neg_rows[j][t] = RatingOf(user_idx[j], neg_idx[(j - 1) * k + t]))

\* C10: in forward and in est_rating, row j of the reshaped negative ratings
\* holds exactly the ratings of user_idx[j] for its own k negatives, and the
\* broadcast against r compares positive j with row j only: the hit of pair
\* j counts the negatives of pair j rated above the held-out item of pair j
C10_OwnNegativesOnly ==
    /\ (fwd # NoRun /\ fwd.user_idx # <<>>) =>
          RowsPaired(fwd.user_idx, fwd.neg_item_idx, fwd.neg_r_ui)
    /\ ev # NoRun =>
          /\ RowsPaired(ev.users_eval, ev.neg_movies_eval, ev.neg_r)
          /\ \A j \in DOMAIN ev.users_eval :
                /\ ev.r[j] = <<RatingOf(ev.users_eval[j], ev.movies_eval[j])>>
                /\ ev.hits10[j] =
                     (Cardinality({t \in 1..NegShort :
                         RGreater(RatingOf(ev.users_eval[j],
                                           ev.neg_movies_eval[(j - 1) * NegShort + t]),
                                  RatingOf(ev.users_eval[j], ev.movies_eval[j]))})
                        <= HitsAt)

\* forward drew two positives of different users with two negatives each,
\* and the two rows of negative ratings differ
C10_Witness ==
    /\ pc = "returned" /\ fwd # NoRun
    /\ Len(fwd.user_idx) = 2 /\ fwd.neg_sample_size = 2
    /\ fwd.user_idx[1] # fwd.user_idx[2]
    /\ fwd.neg_r_ui[1][2] # fwd.neg_r_ui[2][1]
    /\ fwd.neg_r_ui[1] # fwd.neg_r_ui[2]

----------------------------------------------------------------------------
(* Learned parameters *)

\* the state optimizer.step works on: the biases, and the item embeddings
\* the encoder and graph-convolution weights produce
Params == <<b_u, b_i, P, Q>>

\* the last evaluation is what RecEvaluate gives on the parameters as they
\* are now
EvalOfParams(users_eval, movies_eval) ==
    ev = RecEvaluate(user_movie_spm, b_u, b_i, P, Q, neg_valid, users_eval, movies_eval)

\* C11: once the model is built, the learned parameters change only in
\* optimizer.step: forward, zero_grad, backward and every RecEvaluate call (on
\* the validation or the test set) leave them as they are, so the forward
\* pass of epoch e+1 starts from the parameters that the step of epoch e
\* produced and that the validation of epoch e was computed on
C11_ParamsChangeOnlyInStep ==
    /\ [][(pc # "model" /\ Params' # Params) => pc = "step"]_vars
    /\ [][(pc = "validate" \/ pc = "test") => (Params' = Params)]_vars
    /\ []((pc = "forward" /\ log.valid >= 1) => EvalOfParams(users_valid, movies_valid))
    /\ [](pc = "done" => EvalOfParams(users_test, movies_test))

\* the second epoch is about to start: the step of the first epoch moved the
\* biases and an embedding away from their values, the validation ran on the
\* moved parameters and left them in place
C11_Witness ==
    /\ pc = "forward" /\ epoch = 1
    /\ log.step = 1 /\ log.valid = 1
    /\ b_u # Zeros(num_users) /\ b_i # Zeros(num_movies)
    /\ ev # NoRun /\ EvalOfParams(users_valid, movies_valid)
    /\ ~IsNaN(ev.r[1][1]) /\ ev.r[1][1] # RInt(0)

====
